---- MODULE Spec2Model ----
(***************************************************************************)
(* Survey lifecycle and reminder engine of slack_survey_bot.               *)
(*                                                                         *)
(* Persistent state: the surveys table, the user_list_members table, the   *)
(* survey_sent_messages table and the survey_responses table.  Processes:  *)
(* the ReminderService background thread (Tick) and the Slack Bolt         *)
(* listener threads (Handlers), each running one operation at a time, one  *)
(* database statement or one Slack call per step.                          *)
(*                                                                         *)
(* The bot runs with settings.DEBUG off (no admin-only filtering of        *)
(* recipients).                                                            *)
(***************************************************************************)
EXTENDS Integers, Sequences, FiniteSets, TLC

\* ------------------------------------------------------------- bounds
NumSurveys == 2
NumUsers == 3
NumLists == 2
MaxInFlight == 2
MaxOps == 3
SeqMaxOps == 4
MaxTime == 1
LateTime == 2
MaxRoster == 2

SurveyIds == 1..NumSurveys
\* ids a handler may be called with: the existing surveys and one id of no row
AnyId == 1..(NumSurveys + 1)
Users == 1..NumUsers
Lists == 1..NumLists
\* one handler slot for every operation that may be in flight
Handlers == 1..MaxInFlight
Tick == 0
Procs == {Tick} \cup Handlers
Answers == {"a", "b"}
NoTime == -1

\* ------------------------------------------------------------- strings
\* users_incl / users_excl are TEXT columns: None (modelled as the empty
\* string, which the code treats alike) or list ids joined by ",".
Digit == [i \in 1..9 |-> CASE i = 1 -> "1" [] i = 2 -> "2" [] i = 3 -> "3"
                           [] i = 4 -> "4" [] i = 5 -> "5" [] i = 6 -> "6"
                           [] i = 7 -> "7" [] i = 8 -> "8" [] OTHER -> "9"]

\* str(ul.id): the decimal text of a list id (ids of the model have one digit)
StrOfId(i) == <<Digit[i]>>

\* int(list_id) for a token; 0 stands for the ValueError of a token that is
\* no number
IntOfToken(tok) ==
    IF Len(tok) = 1 /\ \E i \in 1..9 : Digit[i] = tok[1]
    THEN CHOOSE i \in 1..9 : Digit[i] = tok[1]
    ELSE 0

RECURSIVE Join(_)
\* ",".join(ids) if ids else None
Join(toks) ==
    IF toks = <<>> THEN <<>>
    ELSE IF Len(toks) = 1 THEN toks[1]
    ELSE toks[1] \o <<",">> \o Join(Tail(toks))

RECURSIVE SplitFrom(_, _)
\* str.split(","): the tokens between commas, the current token being cur
SplitFrom(str, cur) ==
    IF str = <<>> THEN <<cur>>
    ELSE IF Head(str) = "," THEN <<cur>> \o SplitFrom(Tail(str), <<>>)
    ELSE SplitFrom(Tail(str), Append(cur, Head(str)))

\* survey.users_incl.split(",") if survey.users_incl else []
SplitIds(str) == IF str = <<>> THEN <<>> ELSE SplitFrom(str, <<>>)


\* ------------------------------------------------------------- state
VARIABLES
    surveys,    \* surveys table: id -> row
    members,    \* user_list_members table: list id -> set of member slack ids
    sent,       \* survey_sent_messages: survey id -> receiver -> message_ts of its rows, in insertion order
    responses,  \* survey_responses: survey id -> responder -> answers of its rows, in insertion order
    now,        \* datetime.utcnow(), in hours
    pc,         \* per thread: the statement it is at
    loc,        \* per thread: the locals of the operation it runs
    ops,        \* the number of operations begun so far, up to the largest budget
    stop_event, \* ReminderService._stop_event: set or not
    slack_users \* table slack_users: per Slack id, 0 for no row, 1 for a row
                \* with older data, 2 for a row with the data of the last sync

vars == <<surveys, members, sent, responses, now, pc, loc, ops, stop_event, slack_users>>

NoSurvey ==
    [id |-> 0, is_active |-> FALSE, users_incl |-> <<>>, users_excl |-> <<>>,
     reminder_interval_hours |-> 0, last_reminder_sent_at |-> NoTime,
     reminders_sent_count |-> 0, created_at |-> 0]

\* Survey(...) as create_survey persists it, with the column defaults
NewSurvey(i, interval) ==
    [id |-> i, is_active |-> TRUE, users_incl |-> <<>>, users_excl |-> <<>>,
     reminder_interval_hours |-> interval, last_reminder_sent_at |-> NoTime,
     reminders_sent_count |-> 0, created_at |-> 0]

NoMap == [u \in Users |-> 0]

InitLoc ==
    [op |-> "none", sid |-> 0, survey |-> NoSurvey, user |-> 0, answer |-> "",
     due |-> <<>>, target_users |-> {}, user_message_map |-> NoMap,
     responded_user_ids |-> {}, todo |-> {}, unanswered |-> {},
     read_row |-> NoSurvey,
     read_time |-> NoTime, log |-> {}, result |-> "",
     closed_at_start |-> {}, responded_at_start |-> {}, due_ids |-> {},
     list_id |-> 0, slack_ids |-> {}, old_members |-> {}, mentions |-> {},
     roster |-> <<>>, created_count |-> 0, updated_count |-> 0, errors |-> 0]

\* ------------------------------------------------------------- queries
\* get_survey_by_id: the row, or NoSurvey for scalar_one_or_none() = None
get_survey_by_id(tbl, i) == IF i \in DOMAIN tbl THEN tbl[i] ELSE NoSurvey

Found(row) == row.id # 0

\* a faulty variant of get_list_member_slack_ids that takes an unknown list
\* for the list of everyone
get_list_member_slack_ids_all_if_unknown(mem, l) ==
    IF l \in DOMAIN mem THEN mem[l] ELSE Users

\* get_list_member_slack_ids: the members of a list, none for an unknown id
get_list_member_slack_ids(mem, l) == IF l \in DOMAIN mem THEN mem[l] ELSE {}

RECURSIVE update(_, _, _)
\* for list_id in incl_ids: if list_id.strip(): target_users.update(members)
update(target, toks, mem) ==
    IF toks = <<>> THEN target
    ELSE update(IF Head(toks) = <<>> THEN target
                ELSE target \cup get_list_member_slack_ids(mem, IntOfToken(Head(toks))),
                Tail(toks), mem)

RECURSIVE difference_update(_, _, _)
\* for list_id in excl_ids: if list_id.strip(): target_users.difference_update(members)
difference_update(target, toks, mem) ==
    IF toks = <<>> THEN target
    ELSE difference_update(IF Head(toks) = <<>> THEN target
                           ELSE target \ get_list_member_slack_ids(mem, IntOfToken(Head(toks))),
                           Tail(toks), mem)

\* a faulty variant of target_users_of that removes the excluded members before
\* the included ones are added
target_users_of_exclude_first(row, mem) ==
    update(difference_update({}, SplitIds(row.users_excl), mem),
           SplitIds(row.users_incl), mem)

\* the target set of a survey row: includes unioned, then excludes removed
target_users_of(row, mem) ==
    difference_update(update({}, SplitIds(row.users_incl), mem),
                      SplitIds(row.users_excl), mem)

\* get_sent_messages + the dict comprehension: receiver -> message_ts of its
\* last row, 0 for a receiver with no row
user_message_map_of(tbl, s) ==
    [u \in Users |-> IF Len(tbl[s][u]) = 0 THEN 0 ELSE tbl[s][u][Len(tbl[s][u])]]

\* a faulty variant of user_message_maps_of whose query has no survey_id
\* filter
user_message_maps_of_any_survey(tbl, s) ==
    LET handles(u) == IF \A x \in SurveyIds : Len(tbl[x][u]) = 0 THEN {0}
                      ELSE UNION {{tbl[x][u][i] : i \in 1..Len(tbl[x][u])} : x \in SurveyIds}
    IN {m \in [Users -> UNION {handles(u) : u \in Users}] :
           \A u \in Users : m[u] \in handles(u)}

\* the receivers' handles a run may end up with: the query has no ORDER BY,
\* so of a receiver's rows any one may be the last the dict keeps
user_message_maps_of(tbl, s) ==
    LET handles(u) == IF Len(tbl[s][u]) = 0 THEN {0}
                      ELSE {tbl[s][u][i] : i \in 1..Len(tbl[s][u])}
    IN {m \in [Users -> UNION {handles(u) : u \in Users}] :
           \A u \in Users : m[u] \in handles(u)}

sent_user_ids_of(map) == {u \in Users : map[u] # 0}

\* get_responses_by_survey + the set comprehension
responded_user_ids_of(tbl, s) == {u \in Users : Len(tbl[s][u]) > 0}

\* a faulty variant of check_user_responded whose filter matches no row
check_user_responded_wrong_column(tbl, s, u) == FALSE

\* check_user_responded
check_user_responded(tbl, s, u) == s \in DOMAIN tbl /\ Len(tbl[s][u]) > 0

\* get_unanswered_users: unanswered_user_ids = sent_user_ids - responded_user_ids
get_unanswered_users(sentTbl, respTbl, s) ==
    sent_user_ids_of(user_message_map_of(sentTbl, s)) \ responded_user_ids_of(respTbl, s)

\* a faulty variant of new_users_of that takes every user without a
\* SentRecord as new, in the target set or not
new_users_of_any_user(target, map) == Users \ sent_user_ids_of(map)

\* a faulty variant of new_users_of that takes every target recipient as new
new_users_of_every_target(target, map) == target

\* new_users = target_users - sent_user_ids
new_users_of(target, map) == target \ sent_user_ids_of(map)

\* a faulty variant of unanswered_user_ids_of that forgets the responders
unanswered_user_ids_of_ignoring_responses(map, responded, target) ==
    sent_user_ids_of(map) \cap target

\* a faulty variant of unanswered_user_ids_of that keeps the recipients who
\* left the target set
unanswered_user_ids_of_any_target(map, responded, target) ==
    sent_user_ids_of(map) \ responded

\* unanswered_user_ids = (sent_user_ids - responded_user_ids) & target_users
unanswered_user_ids_of(map, responded, target) ==
    (sent_user_ids_of(map) \ responded) \cap target

\* a faulty variant of IsDue that always counts from created_at
IsDue_since_creation(row, t) ==
    /\ row.is_active
    /\ row.reminder_interval_hours > 0
    /\ t - row.created_at >= row.reminder_interval_hours

\* a faulty variant of IsDue without the is_active filter
IsDue_any_status(row, t) ==
    /\ row.reminder_interval_hours > 0
    /\ t - (IF row.last_reminder_sent_at # NoTime THEN row.last_reminder_sent_at
            ELSE row.created_at) >= row.reminder_interval_hours

\* the due test of get_surveys_needing_reminder for one row
IsDue(row, t) ==
    /\ row.is_active
    /\ row.reminder_interval_hours > 0
    /\ t - (IF row.last_reminder_sent_at # NoTime THEN row.last_reminder_sent_at
            ELSE row.created_at) >= row.reminder_interval_hours

RECURSIVE RowsFrom(_, _, _)
RowsFrom(tbl, i, t) ==
    IF i > NumSurveys THEN <<>>
    ELSE (IF IsDue(tbl[i], t) THEN <<tbl[i]>> ELSE <<>>) \o RowsFrom(tbl, i + 1, t)

\* get_surveys_needing_reminder: the due rows, in id order
get_surveys_needing_reminder(tbl, t) == RowsFrom(tbl, 1, t)

\* ------------------------------------------------------------- writes
\* add_response: INSERT of one row (the table has no unique constraint)
add_response(tbl, s, u, a) == [tbl EXCEPT ![s][u] = Append(@, a)]

\* a faulty variant of add_sent_message that never stores the row
add_sent_message_lost(tbl, s, u, ts) == tbl

\* add_sent_message: INSERT of one row (the table has no unique constraint)
add_sent_message(tbl, s, u, ts) == [tbl EXCEPT ![s][u] = Append(@, ts)]

\* close_survey: UPDATE surveys SET is_active = false
close_survey(row) == [row EXCEPT !.is_active = FALSE]

\* a faulty variant of update_survey_moderation_lists that also clears the
\* time of the last reminder
update_survey_moderation_lists_clearing_reminder(row, incl, excl) ==
    [row EXCEPT !.users_incl = incl, !.users_excl = excl,
                !.last_reminder_sent_at = NoTime]

\* update_survey_moderation_lists: UPDATE of the two list columns
update_survey_moderation_lists(row, incl, excl) ==
    [row EXCEPT !.users_incl = incl, !.users_excl = excl]

\* a faulty variant of update_reminder_status that leaves the count as it is
update_reminder_status_without_count(row, read, t) ==
    [row EXCEPT !.last_reminder_sent_at = t]

\* a faulty variant of update_reminder_status that leaves the time as it is
update_reminder_status_without_time(row, read, t) ==
    [row EXCEPT !.reminders_sent_count = read.reminders_sent_count + 1]

\* a faulty variant of update_reminder_status that writes every column of the
\* loaded object back
update_reminder_status_whole_object(row, read, t) ==
    [read EXCEPT !.last_reminder_sent_at = t,
                 !.reminders_sent_count = read.reminders_sent_count + 1]

\* update_reminder_status at commit: UPDATE of the two attributes set on the
\* object loaded earlier (read), on the row as it is now (row)
update_reminder_status(row, read, t) ==
    [row EXCEPT !.last_reminder_sent_at = t,
                !.reminders_sent_count = read.reminders_sent_count + 1]

RECURSIVE PostedFrom(_, _, _)
\* the number of survey messages posted to u's DM for the surveys from i on
PostedFrom(tbl, u, i) ==
    IF i > NumSurveys THEN 0 ELSE Len(tbl[i][u]) + PostedFrom(tbl, u, i + 1)

\* result["ts"] of chat_postMessage: the n-th survey message posted to that
\* DM, so no two messages of a DM have the same ts
message_ts_of(tbl, s, u) == PostedFrom(tbl, u, 1) + 1

Msg(kind, s, u, thread) == [kind |-> kind, survey |-> s, user |-> u, thread_ts |-> thread]


\* ------------------------------------------------------------- helpers
Idle(p) == pc[p] = "idle"

InFlight == {p \in Procs : pc[p] # "idle"}

\* an event goes to the first free listener thread, the tick to its own
\* thread
CanBegin(p) ==
    /\ Idle(p)
    /\ \A q \in Handlers : (p \in Handlers /\ q < p) => ~Idle(q)
    /\ ops' = IF ops < SeqMaxOps THEN ops + 1 ELSE ops

ClosedNow == {s \in SurveyIds : Found(surveys[s]) /\ ~surveys[s].is_active}

Set(p, f) == loc' = [loc EXCEPT ![p] = f]

Goto(p, l) == pc' = [pc EXCEPT ![p] = l]

\* the locals a finished operation keeps until it returns
Finished(l, res) ==
    [InitLoc EXCEPT !.op = l.op, !.sid = l.sid, !.user = l.user, !.answer = l.answer,
                    !.log = l.log, !.closed_at_start = l.closed_at_start,
                    !.responded_at_start = l.responded_at_start,
                    !.due_ids = l.due_ids, !.list_id = l.list_id,
                    !.slack_ids = l.slack_ids, !.old_members = l.old_members,
                    !.mentions = l.mentions, !.roster = l.roster,
                    !.created_count = l.created_count,
                    !.updated_count = l.updated_count, !.errors = l.errors,
                    !.result = res]

\* entry of _send_reminders_for_survey(survey) in thread p
EnterRun(l, row) ==
    [l EXCEPT !.sid = row.id, !.survey = row, !.target_users = {},
              !.user_message_map = NoMap, !.responded_user_ids = {}, !.todo = {},
              !.unanswered = {}, !.read_row = NoSurvey, !.read_time = NoTime, !.responded_at_start = {}]

\* a thread is inside _send_reminders_for_survey
InRun(p) == pc[p] \in {"resolve", "get_sent", "get_resp", "sending", "status_write"}

\* after a run of thread p ended with locals l: the next round of "for survey
\* in due_surveys", or the end of the operation
NextSurvey(p, l) ==
    IF l.due # <<>>
    THEN Goto(p, "resolve") /\ Set(p, [EnterRun(l, Head(l.due)) EXCEPT !.due = Tail(l.due)])
    ELSE Goto(p, "done") /\ Set(p, Finished(l, "completed"))

\* ------------------------------------------------------------- the clock
Advance ==
    /\ now < MaxTime
    /\ now' = now + 1
    /\ UNCHANGED <<surveys, members, sent, responses, pc, loc, ops, stop_event, slack_users>>

\* the clock of the specifications that follow a survey over two intervals
AdvanceLate ==
    /\ now < LateTime
    /\ now' = now + 1
    /\ UNCHANGED <<surveys, members, sent, responses, pc, loc, ops, stop_event, slack_users>>

\* a stored time one hour further back, seen from a clock that stays at
\* LateTime; a time LateTime or more hours back stays at 0
Shift(t) == IF t = NoTime THEN NoTime ELSE IF t > 0 THEN t - 1 ELSE 0

\* a row seen one hour later from a clock that stays at LateTime; a count
\* above LateTime is kept at LateTime
ShiftRow(r) ==
    [r EXCEPT !.last_reminder_sent_at = Shift(@), !.created_at = Shift(@),
              !.reminders_sent_count = IF @ > LateTime THEN LateTime ELSE @]

\* one hour passes, without end: up to LateTime the clock goes up; from
\* then on the clock stays and every stored time, in the table and in the
\* objects the threads hold, moves back by one hour instead. The due test
\* reads differences of times only, and with intervals below LateTime it
\* cannot tell a time kept at 0 from an older one
Elapse ==
    /\ IF now < LateTime
       THEN now' = now + 1 /\ UNCHANGED <<surveys, loc, slack_users>>
       ELSE /\ now' = now
            /\ surveys' = [s \in SurveyIds |-> ShiftRow(surveys[s])]
            /\ loc' = [p \in Procs |->
                         [loc[p] EXCEPT !.survey = ShiftRow(@), !.read_row = ShiftRow(@),
                                        !.read_time = Shift(@),
                                        !.due = [i \in DOMAIN @ |-> ShiftRow(@[i])]]]
    /\ UNCHANGED <<members, sent, responses, pc, ops, stop_event, slack_users>>

\* ------------------------------------------------- handle_survey_submit
\* the answer is taken from the payload, an empty one ends the handler;
\* then save_response runs the check_user_responded query
\* a faulty variant of not_answer that lets every payload through
not_answer_never(a) == FALSE

\* "if not answer": the input's value is None (no such block in the
\* payload) or the empty string; "" stands for both
not_answer(a) == a = ""

handle_survey_submit(h, s, u, a) ==
    /\ CanBegin(h)
    /\ s \in SurveyIds /\ Len(sent[s][u]) > 0
    /\ LET l == [InitLoc EXCEPT !.op = "submit", !.sid = s, !.user = u, !.answer = a,
                                !.closed_at_start = ClosedNow]
       IN IF not_answer(a)
          THEN Goto(h, "done") /\ Set(h, Finished(l, "no_answer"))
          ELSE IF check_user_responded(responses, s, u)
          THEN Goto(h, "done") /\ Set(h, Finished(l, "already_responded"))
          ELSE Goto(h, "add_response") /\ Set(h, l)
    /\ UNCHANGED <<surveys, members, sent, responses, now, stop_event, slack_users>>

\* save_response: add_response and the thanks
submit_add(h) ==
    /\ pc[h] = "add_response"
    /\ responses' = add_response(responses, loc[h].sid, loc[h].user, loc[h].answer)
    /\ Goto(h, "done") /\ Set(h, Finished(loc[h], "thanks"))
    /\ UNCHANGED <<surveys, members, sent, now, ops, stop_event, slack_users>>

\* -------------------------------------------------- handle_survey_start
handle_survey_start(h, s) ==
    /\ CanBegin(h)
    /\ LET row == get_survey_by_id(surveys, s)
           l == [InitLoc EXCEPT !.op = "start", !.sid = s, !.survey = row,
                                !.closed_at_start = ClosedNow]
       IN IF ~Found(row)
          THEN Goto(h, "done") /\ Set(h, Finished(l, "not_found"))
          ELSE Goto(h, "start_resolve") /\ Set(h, l)
    /\ UNCHANGED <<surveys, members, sent, responses, now, stop_event, slack_users>>

\* start_survey_process: the target set
start_resolve(h) ==
    /\ pc[h] = "start_resolve"
    /\ LET target == target_users_of(loc[h].survey, members)
       IN IF target = {}
          THEN Goto(h, "done") /\ Set(h, Finished(loc[h], "started"))
          ELSE Goto(h, "start_send")
               /\ Set(h, [loc[h] EXCEPT !.target_users = target, !.todo = target])
    /\ UNCHANGED <<surveys, members, sent, responses, now, ops, stop_event, slack_users>>

\* start_survey_process: one round of "for target_user in target_users";
\* chat_postMessage succeeds (and the row is recorded) or raises; after the
\* last round the handler says "started"
start_send(h, u, ok) ==
    /\ pc[h] = "start_send"
    /\ u \in loc[h].todo
    /\ sent' = IF ok
               THEN add_sent_message(sent, loc[h].sid, u, message_ts_of(sent, loc[h].sid, u))
               ELSE sent
    /\ LET l == [loc[h] EXCEPT !.todo = @ \ {u},
                               !.log = IF ok THEN @ \cup {Msg("initial", loc[h].sid, u, 0)}
                                       ELSE @]
       IN IF l.todo = {}
          THEN Goto(h, "done") /\ Set(h, Finished(l, "started"))
          ELSE UNCHANGED pc /\ Set(h, l)
    /\ UNCHANGED <<surveys, members, responses, now, ops, stop_event, slack_users>>

\* --------------------------------------------------- handle_survey_stop
handle_survey_stop(h, s) ==
    /\ CanBegin(h)
    /\ LET row == get_survey_by_id(surveys, s)
           l == [InitLoc EXCEPT !.op = "stop", !.sid = s, !.closed_at_start = ClosedNow]
       IN IF Found(row)
          THEN /\ surveys' = [surveys EXCEPT ![s] = close_survey(row)]
               /\ Set(h, Finished(l, "stopped"))
          ELSE /\ surveys' = surveys
               /\ Set(h, Finished(l, "not_found"))
    /\ Goto(h, "done")
    /\ UNCHANGED <<members, sent, responses, now, stop_event, slack_users>>

\* ---------------------------------------------- handle_survey_unanswered
\* the Unanswered button: the recipients of get_unanswered_users are
\* mentioned in the thread, or "All users have responded" is said
handle_survey_unanswered(h, s) ==
    /\ CanBegin(h)
    /\ LET unanswered_user_ids ==
               IF s \in SurveyIds THEN get_unanswered_users(sent, responses, s) ELSE {}
           l == [InitLoc EXCEPT !.op = "unanswered", !.sid = s,
                                !.closed_at_start = ClosedNow,
                                !.mentions = unanswered_user_ids]
       IN Set(h, Finished(l, IF unanswered_user_ids = {} THEN "all_responded"
                                                         ELSE "listed"))
    /\ Goto(h, "done")
    /\ UNCHANGED <<surveys, members, sent, responses, now, stop_event, slack_users>>

\* ------------------------------------------------ handle_set_users_lists
\* the update inside try/except: "Survey not found" is said as an error
handle_set_users_lists(h, s, incl, excl) ==
    /\ CanBegin(h)
    /\ LET row == get_survey_by_id(surveys, s)
           l == [InitLoc EXCEPT !.op = "set_lists", !.sid = s, !.closed_at_start = ClosedNow]
       IN IF Found(row)
          THEN /\ surveys' = [surveys EXCEPT ![s] =
                                update_survey_moderation_lists(row, Join(incl), Join(excl))]
               /\ Set(h, Finished(l, "updated"))
          ELSE /\ surveys' = surveys
               /\ Set(h, Finished(l, "error"))
    /\ Goto(h, "done")
    /\ UNCHANGED <<members, sent, responses, now, stop_event, slack_users>>

\* handle_list_selection_change: the same update on every change of a
\* selection, with no try around it: "Survey not found" leaves the handler
\* as an exception
handle_list_selection_change(h, s, incl, excl) ==
    /\ CanBegin(h)
    /\ LET row == get_survey_by_id(surveys, s)
           l == [InitLoc EXCEPT !.op = "list_change", !.sid = s, !.closed_at_start = ClosedNow]
       IN IF Found(row)
          THEN /\ surveys' = [surveys EXCEPT ![s] =
                                update_survey_moderation_lists(row, Join(incl), Join(excl))]
               /\ Set(h, Finished(l, "updated"))
          ELSE /\ surveys' = surveys
               /\ Set(h, Finished(l, "exception"))
    /\ Goto(h, "done")
    /\ UNCHANGED <<members, sent, responses, now, stop_event, slack_users>>

\* ------------------------------------------------- user list members
\* UserListMember(user_list_id=list_id, slack_id=slack_id, user_name=...):
\* the row the manager builds; user_id, the column of the foreign key to
\* slack_users, is never given (0 for NULL)
UserListMember(l, u) == [user_list_id |-> l, slack_id |-> u, user_id |-> 0]

\* the INSERT of the rows goes through: user_id is nullable=False
flushes(rows) == \A r \in rows : r.user_id # 0

\* add_member: the row is added and committed, or rolled back and
\* "Error adding member" raised
add_member(h, l, u) ==
    /\ CanBegin(h)
    /\ LET loc0 == [InitLoc EXCEPT !.op = "add_member", !.list_id = l, !.slack_ids = {u},
                                   !.old_members = members[l]]
       IN IF flushes({UserListMember(l, u)})
          THEN /\ members' = [members EXCEPT ![l] = @ \cup {u}]
               /\ Set(h, Finished(loc0, "added"))
          ELSE /\ members' = members
               /\ Set(h, Finished(loc0, "error"))
    /\ Goto(h, "done")
    /\ UNCHANGED <<surveys, sent, responses, now, stop_event, slack_users>>

\* update_list_members, first half: DELETE of the members of the list and
\* commit
update_list_members(h, l, ids) ==
    /\ CanBegin(h)
    /\ members' = [members EXCEPT ![l] = {}]
    /\ Set(h, [InitLoc EXCEPT !.op = "update_members", !.list_id = l, !.slack_ids = ids,
                              !.old_members = members[l]])
    /\ Goto(h, "insert_members")
    /\ UNCHANGED <<surveys, sent, responses, now, stop_event, slack_users>>

\* update_list_members, second half: the new rows are added and committed,
\* or rolled back and "Error updating list members" raised
insert_members(p) ==
    /\ pc[p] = "insert_members"
    /\ LET l == loc[p].list_id
           rows == {UserListMember(l, u) : u \in loc[p].slack_ids}
       IN IF flushes(rows)
          THEN /\ members' = [members EXCEPT ![l] = @ \cup loc[p].slack_ids]
               /\ Set(p, Finished(loc[p], "updated"))
          ELSE /\ members' = members
               /\ Set(p, Finished(loc[p], "error"))
    /\ Goto(p, "done")
    /\ UNCHANGED <<surveys, sent, responses, now, ops, stop_event, slack_users>>

\* remove_members: DELETE of the rows of the list with one of the ids
remove_members(h, l, ids) ==
    /\ CanBegin(h)
    /\ members' = [members EXCEPT ![l] = @ \ ids]
    /\ Set(h, Finished([InitLoc EXCEPT !.op = "remove_members", !.list_id = l,
                                       !.slack_ids = ids, !.old_members = members[l]],
                       "removed"))
    /\ Goto(h, "done")
    /\ UNCHANGED <<surveys, sent, responses, now, stop_event, slack_users>>

\* ------------------------------------------------ UserHandler.update_users
\* the entries of slack_users the loop does not skip: neither is_bot nor
\* USLACKBOT
NonBots(roster) == SelectSeq(roster, LAMBDA e : ~e.is_bot)

\* update_users: the for loop only builds user_data of each entry that is
\* not a bot; the try block comes after the loop, so it runs once, with the
\* user_id and user_data the loop left: the user is updated if it has a row,
\* created if not, or counted as an error when the store raises (~ok). With
\* no such entry user_id is unbound: the lookup raises, and so does the
\* print of the except block, so the error leaves update_users
update_users(h, roster, ok) ==
    /\ CanBegin(h)
    /\ LET l == [InitLoc EXCEPT !.op = "update_users", !.roster = roster]
           kept == NonBots(roster)
       IN IF kept = <<>>
          THEN /\ slack_users' = slack_users
               /\ Set(h, Finished(l, "raised"))
          ELSE LET user_id == kept[Len(kept)].id
               IN IF ~ok
                  THEN /\ slack_users' = slack_users
                       /\ Set(h, Finished([l EXCEPT !.errors = 1], "returned"))
                  ELSE /\ slack_users' = [slack_users EXCEPT ![user_id] = 2]
                       /\ Set(h, Finished(IF slack_users[user_id] # 0
                                          THEN [l EXCEPT !.updated_count = 1]
                                          ELSE [l EXCEPT !.created_count = 1],
                                          "returned"))
    /\ Goto(h, "done")
    /\ UNCHANGED <<surveys, members, sent, responses, now, stop_event>>

\* ----------------------------------------- handle_survey_create_submission
\* the keyword parameters of services.survey_handler.main.SurveyHandler
\* .create_survey (imported as Sh)
Sh_create_survey_params == {"survey_name", "survey_text", "owner_slack_id", "owner_name"}

\* the keywords the submission handler calls Sh().create_survey with
create_submission_kwargs ==
    {"survey_name", "survey_text", "owner_slack_id", "owner_name", "reminder_interval_hours"}

\* float(value) of the interval input; 0 for no value and for ValueError
reminder_interval_of(value) ==
    IF value = "1" THEN 1 ELSE IF value = "2" THEN 2 ELSE 0

\* Sh().create_survey: SurveyCreate is built from the four parameters, the
\* interval is left at the schema's default 0
Sh_create_survey(i) == [NewSurvey(i, 0) EXCEPT !.created_at = now]

\* the submission of the creation modal: the call with a keyword that
\* Sh().create_survey does not take raises TypeError before any session is
\* opened, and nothing of the handler after it runs
handle_survey_create_submission(h, value, incl, excl) ==
    /\ CanBegin(h)
    /\ LET l == [InitLoc EXCEPT !.op = "create", !.answer = value,
                                !.closed_at_start = ClosedNow]
           free == {s \in SurveyIds : ~Found(surveys[s])}
       IN IF ~(create_submission_kwargs \subseteq Sh_create_survey_params)
          THEN /\ surveys' = surveys
               /\ Set(h, Finished(l, "type_error"))
          ELSE /\ free # {}
               /\ LET i == CHOOSE s \in free : \A t \in free : s <= t
                  IN /\ surveys' = [surveys EXCEPT ![i] =
                                      IF incl # <<>> \/ excl # <<>>
                                      THEN update_survey_moderation_lists(
                                               Sh_create_survey(i), Join(incl), Join(excl))
                                      ELSE Sh_create_survey(i)]
                     /\ Set(h, Finished([l EXCEPT !.sid = i], "created"))
    /\ Goto(h, "done")
    /\ UNCHANGED <<members, sent, responses, now, stop_event, slack_users>>

\* ------------------------------------------- _send_reminders_for_survey
\* the include and exclude loops: the target set of the survey object the
\* run was called with
run_resolve(p) ==
    /\ pc[p] = "resolve"
    /\ Set(p, [loc[p] EXCEPT !.target_users = target_users_of(loc[p].survey, members),
                             !.responded_at_start = responded_user_ids_of(responses, loc[p].sid)])
    /\ Goto(p, "get_sent")
    /\ UNCHANGED <<surveys, members, sent, responses, now, ops, stop_event, slack_users>>

\* get_sent_messages and user_message_map
run_get_sent(p) ==
    /\ pc[p] = "get_sent"
    /\ \E map \in user_message_maps_of(sent, loc[p].sid) :
          Set(p, [loc[p] EXCEPT !.user_message_map = map])
    /\ Goto(p, "get_resp")
    /\ UNCHANGED <<surveys, members, sent, responses, now, ops, stop_event, slack_users>>

\* get_responses_by_survey, responded_user_ids and new_users; the
\* unanswered set is computed from the same locals after the first loop
run_get_resp(p) ==
    /\ pc[p] = "get_resp"
    /\ LET responded == responded_user_ids_of(responses, loc[p].sid)
       IN Set(p, [loc[p] EXCEPT
                    !.responded_user_ids = responded,
                    !.todo = new_users_of(loc[p].target_users, loc[p].user_message_map),
                    !.unanswered = unanswered_user_ids_of(loc[p].user_message_map,
                                       responded, loc[p].target_users)])
    /\ Goto(p, "sending")
    /\ UNCHANGED <<surveys, members, sent, responses, now, ops, stop_event, slack_users>>

\* one round of "for target_user in new_users": chat_postMessage succeeds
\* (and add_sent_message records it) or raises and is logged
run_send_initial(p, u, ok) ==
    /\ pc[p] = "sending"
    /\ u \in loc[p].todo
    /\ sent' = IF ok
               THEN add_sent_message(sent, loc[p].sid, u, message_ts_of(sent, loc[p].sid, u))
               ELSE sent
    /\ Set(p, [loc[p] EXCEPT !.todo = @ \ {u},
                             !.log = @ \cup {Msg(IF ok THEN "initial" ELSE "failed",
                                                 loc[p].sid, u, 0)}])
    /\ UNCHANGED <<surveys, members, responses, now, pc, ops, stop_event, slack_users>>

\* the reminders of a run: for user_id in unanswered_user_ids, skipped
\* without a stored message_ts, else the threaded chat_postMessage succeeds
\* (for the users of delivered) or raises
reminders_of(l, delivered) ==
    {Msg("reminder", l.sid, u, l.user_message_map[u]) :
        u \in {v \in l.unanswered \cap delivered : l.user_message_map[v] # 0}}

\* the reminder loop (no store access), then update_reminder_status:
\* get_survey_by_id and datetime.utcnow()
run_remind(p, delivered) ==
    /\ pc[p] = "sending"
    /\ loc[p].todo = {}
    /\ delivered \subseteq loc[p].unanswered
    /\ Set(p, [loc[p] EXCEPT !.log = @ \cup reminders_of(loc[p], delivered),
                             !.read_row = get_survey_by_id(surveys, loc[p].sid),
                             !.read_time = now])
    /\ Goto(p, "status_write")
    /\ UNCHANGED <<surveys, members, sent, responses, now, ops, stop_event, slack_users>>

\* update_reminder_status: the commit; then the next due survey of the
\* tick, or the end of the operation
run_status_write(p) ==
    /\ pc[p] = "status_write"
    /\ LET s == loc[p].sid
       IN surveys' = [surveys EXCEPT ![s] =
                         update_reminder_status(surveys[s], loc[p].read_row, loc[p].read_time)]
    /\ NextSurvey(p, [loc[p] EXCEPT !.log = @ \cup {Msg("completed", loc[p].sid, 0, 0)}])
    /\ UNCHANGED <<members, sent, responses, now, ops, stop_event, slack_users>>

\* a faulty variant of run_raise in which the exception is not caught per
\* survey and ends the whole operation
run_raise_ending_tick(p) ==
    /\ InRun(p)
    /\ Goto(p, "done")
    /\ Set(p, Finished([loc[p] EXCEPT !.log = @ \cup {Msg("raised", loc[p].sid, 0, 0)}],
                       "raised"))
    /\ UNCHANGED <<surveys, members, sent, responses, now, ops, stop_event, slack_users>>

\* an exception inside _send_reminders_for_survey (a failed query or commit,
\* int() of a list reference, the user lookup of the first loop): nothing
\* more is written; the tick logs it and goes on with the next due survey,
\* Remind Now lets it go up to the listener
run_raise(p) ==
    /\ InRun(p)
    /\ LET l == [loc[p] EXCEPT !.log = @ \cup {Msg("raised", loc[p].sid, 0, 0)}]
       IN IF loc[p].op = "tick"
          THEN NextSurvey(p, l)
          ELSE Goto(p, "done") /\ Set(p, Finished(l, "raised"))
    /\ UNCHANGED <<surveys, members, sent, responses, now, ops, stop_event, slack_users>>

\* ------------------------------------------------------------ _run_loop
\* a faulty variant of is_set that never sees the event
is_set_never == FALSE

\* self._stop_event.is_set()
is_set == stop_event

\* one pass of "while not self._stop_event.is_set()": the wait is over, the
\* event is not set and check_and_send_reminders begins; the query of the
\* due surveys succeeds (ok) or raises, which _run_loop logs
check_and_send_reminders(ok) ==
    /\ CanBegin(Tick)
    /\ ~is_set
    /\ LET due_surveys == get_surveys_needing_reminder(surveys, now)
           l == [InitLoc EXCEPT !.op = "tick", !.closed_at_start = ClosedNow,
                                !.due_ids = IF ok THEN {due_surveys[i].id : i \in DOMAIN due_surveys}
                                            ELSE {}]
       IN IF ~ok
          THEN Goto(Tick, "done") /\ Set(Tick, Finished(l, "query_failed"))
          ELSE IF due_surveys = <<>>
          THEN Goto(Tick, "done") /\ Set(Tick, Finished(l, "no_due"))
          ELSE /\ Goto(Tick, "resolve")
               /\ Set(Tick, [EnterRun(l, Head(due_surveys)) EXCEPT !.due = Tail(due_surveys)])
    /\ UNCHANGED <<surveys, members, sent, responses, now, stop_event, slack_users>>

\* the wait returns with the event set: the while test fails and the thread
\* ends
loop_exit ==
    /\ Idle(Tick)
    /\ is_set
    /\ Goto(Tick, "exited")
    /\ UNCHANGED <<surveys, members, sent, responses, now, loc, ops, stop_event, slack_users>>

\* ReminderService.stop
stop ==
    /\ stop_event' = TRUE
    /\ UNCHANGED <<surveys, members, sent, responses, now, pc, loc, ops, slack_users>>

\* a faulty variant of not_found_or_not_active that also turns away a survey
\* that is not due
not_found_or_not_due(survey) == ~Found(survey) \/ ~IsDue(survey, now)

\* a faulty variant of not_found_or_not_active that lets a closed survey in
not_found_only(survey) == ~Found(survey)

\* if not survey or not survey.is_active
not_found_or_not_active(survey) == ~Found(survey) \/ ~survey.is_active

\* -------------------- handle_remind_now / send_immediate_reminder
send_immediate_reminder(h, s) ==
    /\ CanBegin(h)
    /\ LET survey == get_survey_by_id(surveys, s)
           l == [InitLoc EXCEPT !.op = "remind", !.sid = s, !.closed_at_start = ClosedNow]
       IN IF not_found_or_not_active(survey)
          THEN Goto(h, "done") /\ Set(h, Finished(l, "not_active"))
          ELSE Goto(h, "resolve") /\ Set(h, EnterRun(l, survey))
    /\ UNCHANGED <<surveys, members, sent, responses, now, stop_event, slack_users>>

\* a faulty variant of Return in which an exception of the tick is not
\* caught by the loop and ends the thread
Return_uncaught(p) ==
    /\ pc[p] = "done"
    /\ Goto(p, IF loc[p].result = "query_failed" THEN "exited" ELSE "idle")
    /\ Set(p, InitLoc)
    /\ UNCHANGED <<surveys, members, sent, responses, now, ops, stop_event, slack_users>>

\* the operation returns (an exception of the tick is logged by _run_loop);
\* the thread is free again, the loop thread waits
Return(p) ==
    /\ pc[p] = "done"
    /\ Goto(p, "idle") /\ Set(p, InitLoc)
    /\ UNCHANGED <<surveys, members, sent, responses, now, ops, stop_event, slack_users>>

\* ------------------------------------------------------------- inputs
\* the selections a multi-select can hold: list ids, none twice
Selections ==
    {<<>>} \cup {<<StrOfId(i)>> : i \in Lists}
           \cup {<<StrOfId(i), StrOfId(j)>> : <<i, j>> \in {x \in Lists \X Lists : x[1] # x[2]}}

\* the references a survey may hold: ids of the lists and the id of a list
\* that was deleted since
StoredSelections ==
    LET ids == 1..(NumLists + 1)
    IN {<<>>} \cup {<<StrOfId(i)>> : i \in ids}
              \cup {<<StrOfId(i), StrOfId(j)>> : <<i, j>> \in {x \in ids \X ids : x[1] # x[2]}}

\* list 1 (the "all" list) holds the active users, every user but the last;
\* list l > 1 holds the users below l
Roster == [l \in Lists |-> IF l = 1 THEN {u \in Users : u < NumUsers}
                                     ELSE {u \in Users : u < l}]

\* the same lists when every user is active
FullRoster == [l \in Lists |-> IF l = 1 THEN Users ELSE {u \in Users : u < l}]

\* the surveys created so far: the first one, or all of them
FirstSurvey == {1}

\* ------------------------------------------------------------- specification
TypeOK ==
    /\ now \in 0..LateTime
    /\ pc \in [Procs -> {"idle", "done", "exited", "add_response",
                         "start_resolve", "start_send", "resolve", "get_sent",
                         "get_resp", "sending", "status_write", "insert_members"}]
    /\ \A s \in SurveyIds : surveys[s].id \in {0, s}
    /\ stop_event \in BOOLEAN
    /\ slack_users \in [Users -> 0..2]

\* the store after the surveys of created were created with one of the
\* intervals and one of the list selections (include, exclude), before any
\* message went out; the other ids have no row
InitWith(created, intervals, configs, mems) ==
    /\ surveys \in {[s \in SurveyIds |->
                        IF s \in created
                        THEN update_survey_moderation_lists(NewSurvey(s, x[1]),
                                                            Join(x[2][1]), Join(x[2][2]))
                        ELSE NoSurvey] :
                       x \in intervals \X configs}
    /\ members \in mems
    /\ sent = [s \in SurveyIds |-> [u \in Users |-> <<>>]]
    /\ responses = [s \in SurveyIds |-> [u \in Users |-> <<>>]]
    /\ now = 0
    /\ pc = [p \in Procs |-> "idle"]
    /\ loc = [p \in Procs |-> InitLoc]
    /\ ops = 0
    /\ stop_event = FALSE
    /\ slack_users = [u \in Users |-> 1]

SubmitStep(p) == submit_add(p)

StartStep(p) ==
    \/ start_resolve(p)
    \/ \E u \in Users, ok \in BOOLEAN : start_send(p, u, ok)

RunStep(p) ==
    \/ run_resolve(p)
    \/ run_get_sent(p)
    \/ run_get_resp(p)
    \/ \E u \in Users, ok \in BOOLEAN : run_send_initial(p, u, ok)
    \/ \E delivered \in SUBSET Users : run_remind(p, delivered)
    \/ run_status_write(p)
    \/ run_raise(p)

Step(p) ==
    \/ SubmitStep(p)
    \/ StartStep(p)
    \/ RunStep(p)
    \/ Return(p)

\* the events a listener thread may be given: a submission with one of the
\* answers, Start, Stop, a list selection of configs, Remind Now
BeginWith(h, answers, configs) ==
    \/ \E s \in SurveyIds, u \in Users, a \in answers : handle_survey_submit(h, s, u, a)
    \/ \E s \in AnyId : handle_survey_start(h, s)
    \/ \E s \in AnyId : handle_survey_stop(h, s)
    \/ \E s \in AnyId, c \in configs : handle_set_users_lists(h, s, c[1], c[2])
    \/ \E s \in AnyId, c \in configs : handle_list_selection_change(h, s, c[1], c[2])
    \/ \E s \in AnyId : send_immediate_reminder(h, s)

\* a new operation begins while fewer than inflight run and fewer than
\* budget have begun
MayBegin(inflight, budget) == Cardinality(InFlight) < inflight /\ ops < budget

\* ---- Spec: every interleaving of up to MaxInFlight operations; one answer
\* text, the survey created with list 1 included, list 2 put on or taken off
\* the exclude side
Init == InitWith(FirstSurvey, {1}, {<<<<StrOfId(1)>>, <<>>>>}, {Roster})

Next ==
    \/ Advance
    \/ MayBegin(MaxInFlight, MaxOps) /\ \E ok \in BOOLEAN : check_and_send_reminders(ok)
    \/ MayBegin(MaxInFlight, MaxOps) /\ \E h \in Handlers :
          BeginWith(h, {"a"}, {<<StrOfId(1)>>} \X {<<>>, <<StrOfId(2)>>})
    \/ \E p \in Procs : Step(p)

Spec == Init /\ [][Next]_vars

\* ---- SeqSpec: the operations one at a time, with every answer (the empty
\* one too) and every selection of lists
SeqInit == InitWith(FirstSurvey, {0, 1}, {<<<<>>, <<>>>>, <<<<StrOfId(1)>>, <<>>>>}, {Roster})

SeqNext ==
    \/ Advance
    \/ MayBegin(1, SeqMaxOps) /\ \E ok \in BOOLEAN : check_and_send_reminders(ok)
    \/ MayBegin(1, SeqMaxOps) /\ \E h \in Handlers :
          BeginWith(h, Answers \cup {""}, Selections \X Selections)
    \/ \E p \in Procs : Step(p)

SeqSpec == SeqInit /\ [][SeqNext]_vars

\* ---- ResolveSpec: Start, Remind Now or the tick resolving the target set
\* of a survey with any selection of include and exclude lists, over any
\* membership of the lists
ResolveInit == InitWith(FirstSurvey, {1}, Selections \X Selections, [Lists -> SUBSET Users])

ResolveNext ==
    \/ Advance
    \/ MayBegin(1, 1) /\ \E ok \in BOOLEAN : check_and_send_reminders(ok)
    \/ MayBegin(1, 1) /\ \E h \in Handlers, s \in SurveyIds :
          handle_survey_start(h, s) \/ send_immediate_reminder(h, s)
    \/ \E p \in Procs : start_resolve(p) \/ run_resolve(p)

ResolveSpec == ResolveInit /\ [][ResolveNext]_vars

\* ---- DeletedListSpec: as ResolveSpec, the survey holding any references,
\* also to a list that no longer exists
DeletedListInit ==
    InitWith(FirstSurvey, {1}, StoredSelections \X StoredSelections, [Lists -> SUBSET Users])

DeletedListSpec == DeletedListInit /\ [][ResolveNext]_vars

\* ---- ThreadsSpec: Start and Remind Now on every survey, each created with
\* list 1 included and no reminder interval, up to MaxInFlight at a time
ThreadsInit == InitWith(SurveyIds, {0}, {<<<<StrOfId(1)>>, <<>>>>}, {Roster})

ThreadsNext ==
    \/ MayBegin(MaxInFlight, MaxOps) /\ \E h \in Handlers, s \in SurveyIds :
          handle_survey_start(h, s) \/ send_immediate_reminder(h, s)
    \/ \E p \in Handlers : StartStep(p) \/ RunStep(p) \/ Return(p)

ThreadsSpec == ThreadsInit /\ [][ThreadsNext]_vars

\* ---- CreateSpec: creation submissions with an interval text and a list
\* selection, and Start, on a store that holds the first survey
CreateInit == InitWith(FirstSurvey, {0, 1}, {<<<<StrOfId(1)>>, <<>>>>}, {Roster})

CreateNext ==
    \/ MayBegin(MaxInFlight, MaxOps) /\ \E h \in Handlers :
          \/ \E value \in {"", "1", "2", "x"}, c \in Selections \X {<<>>} :
                handle_survey_create_submission(h, value, c[1], c[2])
          \/ \E s \in SurveyIds : handle_survey_start(h, s)
    \/ \E p \in Handlers : StartStep(p) \/ Return(p)

CreateSpec == CreateInit /\ [][CreateNext]_vars

\* ---- ListsSpec: the member operations of the lists, up to MaxInFlight at
\* a time, next to Remind Now resolving the target of the survey that
\* includes list 1
ListsInit == InitWith(FirstSurvey, {1}, {<<<<StrOfId(1)>>, <<>>>>}, {Roster})

ListsNext ==
    \/ MayBegin(MaxInFlight, MaxOps) /\ \E h \in Handlers :
          \/ \E l \in Lists, u \in Users : add_member(h, l, u)
          \/ \E l \in Lists, ids \in SUBSET Users : update_list_members(h, l, ids)
          \/ \E l \in Lists, ids \in SUBSET Users : remove_members(h, l, ids)
          \/ \E s \in SurveyIds : send_immediate_reminder(h, s)
    \/ \E p \in Handlers : insert_members(p) \/ run_resolve(p) \/ Return(p)

ListsSpec == ListsInit /\ [][ListsNext]_vars

\* ---- UnansweredSpec: the operations of the listener one at a time, the
\* Unanswered button among them; list 2 put on or taken off the exclude side
UnansweredInit == InitWith(FirstSurvey, {0}, {<<<<StrOfId(1)>>, <<>>>>}, {Roster})

UnansweredNext ==
    \/ MayBegin(1, SeqMaxOps) /\ \E h \in Handlers :
          \/ BeginWith(h, {"a"}, {<<StrOfId(1)>>} \X {<<>>, <<StrOfId(2)>>})
          \/ \E s \in AnyId : handle_survey_unanswered(h, s)
    \/ \E p \in Handlers : Step(p)

UnansweredSpec == UnansweredInit /\ [][UnansweredNext]_vars

\* ---- AdminSpec: the events register() listens to, one at a time, every
\* one of them from a caller who is not in the admin list
\* SurveyBot.admins, read once at start-up: the first user
admins == {1}

\* admin_check(func): func for an admin, "You are not authorized" for
\* anybody else
admin_check(h, caller, func) ==
    IF caller \in admins
    THEN func
    ELSE /\ CanBegin(h)
         /\ Set(h, Finished([InitLoc EXCEPT !.op = "denied"], "not_authorized"))
         /\ Goto(h, "done")
         /\ UNCHANGED <<surveys, members, sent, responses, now, stop_event, slack_users>>

\* /survey_manager: the control panels of the surveys are posted to the
\* channel of the command
show_survey_manager(h) ==
    /\ CanBegin(h)
    /\ Set(h, Finished([InitLoc EXCEPT !.op = "manager"], "shown"))
    /\ Goto(h, "done")
    /\ UNCHANGED <<surveys, members, sent, responses, now, stop_event, slack_users>>

\* register(): the command /survey_manager goes through admin_check, the
\* view and the actions are bound to their handlers as they are
register(h, caller) ==
    \/ admin_check(h, caller, show_survey_manager(h))
    \/ \E value \in {"", "1"}, c \in Selections \X {<<>>} :
          handle_survey_create_submission(h, value, c[1], c[2])
    \/ BeginWith(h, {"a"}, {<<StrOfId(1)>>} \X {<<>>, <<StrOfId(2)>>})
    \/ \E s \in AnyId : handle_survey_unanswered(h, s)

AdminInit == InitWith(FirstSurvey, {0}, {<<<<StrOfId(1)>>, <<>>>>}, {Roster})

AdminNext ==
    \/ MayBegin(1, MaxOps) /\ \E h \in Handlers, caller \in Users \ admins :
          register(h, caller)
    \/ \E p \in Handlers : Step(p)

AdminSpec == AdminInit /\ [][AdminNext]_vars

\* ---- TicksSpec: the background tick over two intervals next to
\* submissions, Start, Stop and list updates of the listener, and no Remind
\* Now
TicksNext ==
    \/ AdvanceLate
    \/ MayBegin(MaxInFlight, MaxOps) /\ \E ok \in BOOLEAN : check_and_send_reminders(ok)
    \/ MayBegin(MaxInFlight, MaxOps) /\ \E h \in Handlers :
          \/ \E s \in SurveyIds, u \in Users : handle_survey_submit(h, s, u, "a")
          \/ \E s \in SurveyIds : handle_survey_start(h, s)
          \/ \E s \in SurveyIds : handle_survey_stop(h, s)
          \/ \E s \in SurveyIds : handle_set_users_lists(h, s, <<StrOfId(1)>>, <<StrOfId(2)>>)
    \/ \E p \in Procs : Step(p)

TicksSpec == Init /\ [][TicksNext]_vars

\* ---- LiveSpec: the reminder thread alone on the survey that includes list
\* 1, never stopped, time passing without end. The thread is scheduled again
\* and again and the clock goes on (weak fairness); the query of the due
\* surveys, the queries of a run and the post to any one recipient, each
\* tried again and again, do not raise every time (strong fairness)
LiveThread ==
    \/ \E ok \in BOOLEAN : check_and_send_reminders(ok)
    \/ RunStep(Tick)
    \/ Return(Tick)

LiveNext == Elapse \/ LiveThread

LiveSpec ==
    /\ Init /\ [][LiveNext]_vars
    /\ WF_vars(Elapse) /\ WF_vars(LiveThread)
    /\ SF_vars(check_and_send_reminders(TRUE))
    /\ SF_vars(run_resolve(Tick)) /\ SF_vars(run_get_sent(Tick)) /\ SF_vars(run_get_resp(Tick))
    /\ \A u \in Users : SF_vars(run_send_initial(Tick, u, TRUE))

\* ---- RosterSpec: syncs of the users table with rosters of up to MaxRoster
\* entries, bots among them, one at a time, on any table
RosterEntries == [id : Users, is_bot : BOOLEAN]

Rosters == UNION {[1..n -> RosterEntries] : n \in 0..MaxRoster}

\* no survey yet, the lists as ensure_default_lists left them, and any
\* users in the table
RosterInit ==
    /\ surveys = [s \in SurveyIds |-> NoSurvey]
    /\ members = Roster
    /\ sent = [s \in SurveyIds |-> [u \in Users |-> <<>>]]
    /\ responses = [s \in SurveyIds |-> [u \in Users |-> <<>>]]
    /\ now = 0
    /\ pc = [p \in Procs |-> "idle"]
    /\ loc = [p \in Procs |-> InitLoc]
    /\ ops = 0
    /\ stop_event = FALSE
    /\ slack_users \in [Users -> {0, 1}]

RosterNext ==
    \/ MayBegin(1, MaxOps) /\ \E h \in Handlers, roster \in Rosters, ok \in BOOLEAN :
          update_users(h, roster, ok)
    \/ \E p \in Handlers : Return(p)

RosterSpec == RosterInit /\ [][RosterNext]_vars

\* ---- RunsSpec: the background tick and the Remind Now of one listener
\* thread on the same store, interleaved in every way, and nothing else
RunsNext ==
    \/ Advance
    \/ MayBegin(MaxInFlight, MaxOps) /\ \E ok \in BOOLEAN : check_and_send_reminders(ok)
    \/ MayBegin(MaxInFlight, MaxOps) /\ \E s \in AnyId : send_immediate_reminder(1, s)
    \/ \E p \in Procs : RunStep(p) \/ Return(p)

RunsSpec == Init /\ [][RunsNext]_vars

\* ---- FixedSpec: every interleaving of up to MaxInFlight operations that
\* leave the lists alone: ticks, submissions, Start, Stop and Remind Now on
\* a survey that includes list 1 and excludes list 2 or nothing
FixedInit ==
    InitWith(FirstSurvey, {1}, {<<StrOfId(1)>>} \X {<<>>, <<StrOfId(2)>>}, {Roster})

FixedNext ==
    \/ Advance
    \/ MayBegin(MaxInFlight, MaxOps) /\ \E ok \in BOOLEAN : check_and_send_reminders(ok)
    \/ MayBegin(MaxInFlight, MaxOps) /\ \E h \in Handlers :
          \/ \E s \in SurveyIds, u \in Users : handle_survey_submit(h, s, u, "a")
          \/ \E s \in AnyId : handle_survey_start(h, s)
          \/ \E s \in AnyId : handle_survey_stop(h, s)
          \/ \E s \in AnyId : send_immediate_reminder(h, s)
    \/ \E p \in Procs : Step(p)

FixedSpec == FixedInit /\ [][FixedNext]_vars

\* ---- LoopSpec: the reminder thread alone, on every survey created with an
\* interval of one hour and list 1 included, until stop() is called and
\* after; the thread is scheduled again and again, its waits time out and
\* the statements of a tick return (weak fairness of its steps)
LoopInit == InitWith(SurveyIds, {1}, {<<<<StrOfId(1)>>, <<>>>>}, {Roster})

LoopThread ==
    \/ \E ok \in BOOLEAN : check_and_send_reminders(ok)
    \/ RunStep(Tick)
    \/ Return(Tick)
    \/ loop_exit

LoopNext ==
    \/ Advance
    \/ stop
    \/ LoopThread

LoopSpec == LoopInit /\ [][LoopNext]_vars /\ WF_vars(LoopThread)

\* ---- SeqRunsSpec: ticks, Remind Now and submissions one at a time on a
\* survey that includes list 1 with every user active, created with a
\* reminder interval of 0 or 1 hour
SeqRunsInit == InitWith(FirstSurvey, {0, 1}, {<<<<StrOfId(1)>>, <<>>>>}, {FullRoster})

SeqRunsNext ==
    \/ Advance
    \/ MayBegin(1, MaxOps) /\ \E ok \in BOOLEAN : check_and_send_reminders(ok)
    \/ MayBegin(1, MaxOps) /\ \E h \in Handlers, s \in AnyId : send_immediate_reminder(h, s)
    \/ MayBegin(1, MaxOps) /\ \E h \in Handlers, s \in SurveyIds, u \in Users :
          handle_survey_submit(h, s, u, "a")
    \/ \E p \in Procs : RunStep(p) \/ SubmitStep(p) \/ Return(p)

SeqRunsSpec == SeqRunsInit /\ [][SeqRunsNext]_vars

\* ------------------------------------------------------------- claims
Pairs == SurveyIds \X Users

Initials(p) == {m.user : m \in {x \in loc[p].log : x.kind = "initial"}}

Reminded(p) == {m.user : m \in {x \in loc[p].log : x.kind = "reminder"}}

\* the recipients whose initial message raised in p's operation
Failed(p) == {m.user : m \in {x \in loc[p].log : x.kind = "failed"}}

\* p's operation is over and the run of its last survey reached its end
RunEnded(p) ==
    /\ pc[p] = "done" /\ loc[p].op \in {"tick", "remind"}
    /\ Msg("completed", loc[p].sid, 0, 0) \in loc[p].log

\* the step in which p's run commits update_reminder_status and ends
RunCommits(p) ==
    /\ pc[p] = "status_write"
    /\ loc'[p].log \ loc[p].log = {Msg("completed", loc[p].sid, 0, 0)}

\* C1: with submissions run one at a time, no (survey, recipient) pair ever
\* has more than one Response row, a row once written is never changed, and a
\* submission (with an answer) by a recipient who has a row writes nothing
\* and ends "already responded"
C1_AtMostOneResponse ==
    [][/\ \A x \in Pairs : Len(responses'[x[1]][x[2]]) <= 1
       /\ \A x \in Pairs : Len(responses[x[1]][x[2]]) = 1 =>
             responses'[x[1]][x[2]] = responses[x[1]][x[2]]
       /\ \A h \in Handlers :
             (/\ Idle(h) /\ loc'[h].op = "submit" /\ loc'[h].answer # ""
              /\ Len(responses[loc'[h].sid][loc'[h].user]) = 1)
             => (/\ pc'[h] = "done" /\ loc'[h].result = "already_responded"
                 /\ responses' = responses)]_vars

\* a second submission ended "already responded", one row in place
C1_Witness ==
    \E h \in Handlers :
        /\ pc[h] = "done" /\ loc[h].op = "submit"
        /\ loc[h].result = "already_responded"
        /\ Len(responses[loc[h].sid][loc[h].user]) = 1

\* C2: also with submissions running concurrently, every (survey,
\* recipient) pair has at most one Response row
C2_OneResponseUnderRace == \A x \in Pairs : Len(responses[x[1]][x[2]]) <= 1

\* C3: with a tick run and a Remind Now run of the same survey interleaved,
\* every (survey, recipient) pair has at most one SentRecord
C3_OneSentRecordUnderRace == \A x \in Pairs : Len(sent[x[1]][x[2]]) <= 1

\* C4: in a sequential mix of Start, ticks and Remind Now, a recipient who
\* has a SentRecord for a survey is never given another one
C4_NoSecondInitialMessage ==
    [][\A x \in Pairs : Len(sent[x[1]][x[2]]) >= 1 =>
          sent'[x[1]][x[2]] = sent[x[1]][x[2]]]_vars

\* C5: add_sent_message for a pair that has a SentRecord leaves the table
\* as it is (it fails with the duplicate-send error)
C5_DuplicateSendRejected ==
    \A x \in Pairs : Len(sent[x[1]][x[2]]) >= 1 =>
        add_sent_message(sent, x[1], x[2], message_ts_of(sent, x[1], x[2])) = sent

\* the ids of a selection of lists, in any order
IdsOf(sel) == {IntOfToken(sel[i]) : i \in 1..Len(sel)}

MembersOfAll(ids) == UNION {members[l] : l \in ids \cap Lists}

\* C6: the target set a run or Start has computed is the union of the
\* members of the include lists minus the union of the members of the
\* exclude lists, whatever the order in which the lists were selected
C6_TargetIsUnionMinusUnion ==
    \A p \in Procs :
        pc[p] \in {"get_sent", "start_send"} =>
            \A ci \in Selections, ce \in Selections :
                (Join(ci) = loc[p].survey.users_incl /\ Join(ce) = loc[p].survey.users_excl)
                => loc[p].target_users = MembersOfAll(IdsOf(ci)) \ MembersOfAll(IdsOf(ce))

\* a run resolved a non-empty target with two include lists and a recipient
\* of an include list left out because an exclude list holds them too
C6_Witness ==
    \E p \in Procs, ci \in Selections, ce \in Selections :
        /\ pc[p] = "get_sent"
        /\ Join(ci) = loc[p].survey.users_incl /\ Join(ce) = loc[p].survey.users_excl
        /\ Len(ci) = 2 /\ ce # <<>>
        /\ loc[p].target_users # {}
        /\ (MembersOfAll(IdsOf(ci)) \cap MembersOfAll(IdsOf(ce))) # {}

\* C7: a tick or a Remind Now that began when a survey was closed never
\* processes that survey: it posts no message for it (and so records none)
C7_ClosedSurveysSilenced ==
    \A p \in Procs :
        loc[p].op \in {"tick", "remind"} =>
            /\ \A m \in loc[p].log : m.survey \notin loc[p].closed_at_start
            /\ InRun(p) => loc[p].sid \notin loc[p].closed_at_start

\* on a closed survey whose interval has elapsed and that has a recipient
\* not yet sent to, a tick found nothing due and a Remind Now ended "not
\* active"
C7_Witness ==
    \E h \in Handlers, s \in SurveyIds :
        /\ pc[Tick] = "done" /\ loc[Tick].op = "tick"
        /\ s \in loc[Tick].closed_at_start /\ loc[Tick].result = "no_due"
        /\ pc[h] = "done" /\ loc[h].op = "remind" /\ loc[h].sid = s
        /\ s \in loc[h].closed_at_start /\ loc[h].result = "not_active"
        /\ IsDue([surveys[s] EXCEPT !.is_active = TRUE], now)
        /\ \E u \in target_users_of(surveys[s], members) : Len(sent[s][u]) = 0

\* C8: a survey that is closed stays closed in every step
C8_CloseIsIrreversible ==
    [][\A s \in SurveyIds : ~surveys[s].is_active => ~surveys'[s].is_active]_vars

\* a run that loaded the survey as active is about to commit its reminder
\* status after the survey was closed
C8_Witness ==
    \E p \in Procs :
        /\ pc[p] = "status_write"
        /\ loc[p].read_row.is_active
        /\ ~surveys[loc[p].sid].is_active

\* C9: once a survey is closed, none of its Response rows is added
C9_NoResponseAfterClose ==
    [][\A x \in Pairs : ~surveys[x[1]].is_active =>
          responses'[x[1]][x[2]] = responses[x[1]][x[2]]]_vars

\* C10: no reminder of a run goes to a recipient whose Response was
\* committed when the run started
C10_NoReminderToResponder ==
    \A p \in Procs :
        \A m \in loc[p].log :
            (m.kind = "reminder" /\ m.survey = loc[p].sid)
            => m.user \notin loc[p].responded_at_start

\* a run ended that reminded every target recipient but the one who had
\* answered
C10_Witness ==
    \E p \in Procs :
        /\ RunEnded(p)
        /\ loc[p].responded_at_start # {}
        /\ Reminded(p) # {}
        /\ Reminded(p) = target_users_of(surveys[loc[p].sid], members)
                            \ loc[p].responded_at_start

\* C11: every reminder of a run goes to a recipient of the target set the
\* run resolved; a recipient outside it gets none, SentRecord or not
C11_NoReminderOutsideTarget ==
    \A p \in Procs :
        pc[p] = "status_write" =>
            \A m \in loc[p].log :
                (m.kind = "reminder" /\ m.survey = loc[p].sid)
                => m.user \in loc[p].target_users

\* a run reminded someone while a recipient with a SentRecord and no
\* Response, whose list is now excluded, was left out
C11_Witness ==
    \E p \in Procs, u \in Users :
        /\ pc[p] = "status_write"
        /\ loc[p].survey.users_excl # <<>>
        /\ u \notin loc[p].target_users
        /\ loc[p].user_message_map[u] # 0
        /\ u \notin loc[p].responded_user_ids
        /\ Reminded(p) # {}
        /\ u \notin Reminded(p)

\* C12: with the operations one at a time, the step that ends a run adds
\* exactly 1 to reminders_sent_count and sets last_reminder_sent_at to the
\* clock value the run read (never a later one than the clock shows),
\* whatever the run sent; and the first run on a fresh survey leaves one
\* SentRecord for each recipient it sent to, none for the others, and a
\* count of 1
C12_EveryRunCounts ==
    /\ [][\A p \in Procs :
             RunCommits(p) =>
                 LET s == loc[p].sid
                 IN /\ surveys'[s].reminders_sent_count = surveys[s].reminders_sent_count + 1
                    /\ surveys'[s].last_reminder_sent_at = loc[p].read_time
                    /\ loc[p].read_time \in 0..now]_vars
    /\ [](\A p \in Procs :
             (ops = 1 /\ RunEnded(p))
             => LET s == loc[p].sid
                IN /\ surveys[s].reminders_sent_count = 1
                   /\ Initials(p) \cup Failed(p) = target_users_of(surveys[s], members)
                   /\ \A u \in Users :
                         Len(sent[s][u]) = IF u \in Initials(p) THEN 1 ELSE 0)

\* the first run on a fresh survey with three target recipients ended with
\* 3 SentRecords and a count of 1
C12_Witness ==
    \E p \in Procs :
        /\ ops = 1 /\ RunEnded(p)
        /\ Cardinality(target_users_of(surveys[loc[p].sid], members)) = 3
        /\ Cardinality({u \in Users : Len(sent[loc[p].sid][u]) = 1}) = 3
        /\ surveys[loc[p].sid].reminders_sent_count = 1
        /\ surveys[loc[p].sid].last_reminder_sent_at = now

\* C13: reminders_sent_count of a survey never decreases, also with the
\* update_reminder_status calls of the tick and of Remind Now interleaved
C13_CountNeverDecreases ==
    [][\A s \in SurveyIds :
          surveys'[s].reminders_sent_count >= surveys[s].reminders_sent_count]_vars

\* C14: last_reminder_sent_at of a survey, once set, never moves to an
\* earlier time, also with two update_reminder_status calls overlapping
C14_TimestampNeverGoesBack ==
    [][\A s \in SurveyIds :
          surveys[s].last_reminder_sent_at # NoTime =>
              surveys'[s].last_reminder_sent_at >= surveys[s].last_reminder_sent_at]_vars

\* C15: with the lists and their members fixed, a step that adds a Response
\* never adds a member to the unanswered set (SentRecord and no Response)
\* of a survey, and once every target recipient of the survey has a
\* SentRecord, a step that adds no Response (of a run, of Start) leaves the
\* set as it is
C15_UnansweredOnlyShrinks ==
    [][\A s \in SurveyIds :
          LET before == get_unanswered_users(sent, responses, s)
              after == get_unanswered_users(sent', responses', s)
          IN /\ responses' # responses => after \subseteq before
             /\ (/\ responses' = responses
                 /\ Found(surveys[s])
                 /\ target_users_of(surveys[s], members)
                       \subseteq sent_user_ids_of(user_message_map_of(sent, s)))
                => after = before]_vars

\* a run ended that sent no initial message: every target recipient had a
\* SentRecord, one of them had answered, the other is still unanswered
C15_Witness ==
    \E p \in Procs :
        /\ RunEnded(p)
        /\ Initials(p) = {} /\ Failed(p) = {}
        /\ target_users_of(surveys[loc[p].sid], members)
              \subseteq sent_user_ids_of(user_message_map_of(sent, loc[p].sid))
        /\ loc[p].responded_at_start # {}
        /\ get_unanswered_users(sent, responses, loc[p].sid) # {}

\* C16: with the operations one at a time, a Remind Now on an active survey
\* enters the run on the row it loaded, due or not, and the step that ends
\* the run leaves reminders_sent_count one above the loaded value
C16_RemindNowAlwaysRuns ==
    [][\A h \in Handlers :
          /\ (/\ Idle(h) /\ loc'[h].op = "remind"
              /\ get_survey_by_id(surveys, loc'[h].sid).is_active)
             => (pc'[h] = "resolve" /\ loc'[h].survey = surveys[loc'[h].sid])
          /\ (loc[h].op = "remind" /\ RunCommits(h))
             => surveys'[loc[h].sid].reminders_sent_count =
                    loc[h].survey.reminders_sent_count + 1]_vars

\* a second Remind Now run ended at hour 0 on a survey with an interval of
\* one hour: neither run was due, the count is 2
C16_Witness ==
    \E h \in Handlers :
        /\ pc[h] = "done" /\ loc[h].op = "remind" /\ loc[h].result = "completed"
        /\ now = 0
        /\ surveys[loc[h].sid].reminder_interval_hours = 1
        /\ surveys[loc[h].sid].reminders_sent_count = 2

\* the loop thread is inside a tick
InTick == pc[Tick] \notin {"idle", "exited"}

\* the loop thread is in self._stop_event.wait(timeout=...)
Waiting == pc[Tick] = "idle"

\* the tick that just ended raised: in the query of the due surveys, or in
\* the run of one of them
TickFailed ==
    /\ pc[Tick] = "done" /\ loc[Tick].op = "tick"
    /\ \/ loc[Tick].result = "query_failed"
       \/ \E m \in loc[Tick].log : m.kind = "raised"

\* the tick ran survey s to the end of its run or to its own exception
Processed(s) ==
    \/ Msg("completed", s, 0, 0) \in loc[Tick].log
    \/ Msg("raised", s, 0, 0) \in loc[Tick].log

\* C17: when a tick is over, every survey its query found due was run, to
\* the end of its run or to its own exception, whatever happened to the
\* surveys before it; and a survey whose run ended has its status updated
C17_FailureDoesNotStopTheTick ==
    (pc[Tick] = "done" /\ loc[Tick].op = "tick") =>
        \A s \in loc[Tick].due_ids :
            /\ Processed(s)
            /\ Msg("completed", s, 0, 0) \in loc[Tick].log
               => surveys[s].reminders_sent_count >= 1

\* a tick found two surveys due, the run of the first raised and the run of
\* the second reached its end
C17_Witness ==
    /\ pc[Tick] = "done" /\ loc[Tick].op = "tick"
    /\ loc[Tick].due_ids = {1, 2}
    /\ Msg("raised", 1, 0, 0) \in loc[Tick].log
    /\ Msg("completed", 2, 0, 0) \in loc[Tick].log
    /\ surveys[2].reminders_sent_count = 1

\* C18: with the operations one at a time, a recipient whose initial message
\* raised in a run has no SentRecord and is in the new-recipient set (target
\* minus sent) the next run computes; every recipient the run did send to
\* has one SentRecord; and past the first loop every target recipient is
\* either recorded or among the failed
C18_FailedSendLeavesEligible ==
    \A p \in Procs :
        (loc[p].op \in {"tick", "remind"} /\ loc[p].sid \in SurveyIds) =>
            LET s == loc[p].sid
                target == target_users_of(surveys[s], members)
                map == user_message_map_of(sent, s)
            IN /\ \A u \in Failed(p) :
                     Len(sent[s][u]) = 0 /\ u \in new_users_of(target, map)
               /\ \A u \in Initials(p) : Len(sent[s][u]) = 1
               /\ (pc[p] = "status_write" \/ Msg("completed", s, 0, 0) \in loc[p].log)
                  => target \subseteq (Failed(p) \cup sent_user_ids_of(map))

\* a run ended in which the message to one recipient raised and the two
\* others were sent to and recorded
C18_Witness ==
    \E p \in Procs :
        /\ RunEnded(p)
        /\ Cardinality(Failed(p)) = 1
        /\ Cardinality(Initials(p)) = 2
        /\ \A u \in Initials(p) : Len(sent[loc[p].sid][u]) = 1

\* C19: the loop thread ends only after stop was requested; a tick that
\* raised is followed by the wait, and a wait with no stop requested is
\* followed by another tick (or by the stop request)
C19_LoopSurvivesFailedTicks ==
    /\ [](pc[Tick] = "exited" => stop_event)
    /\ (TickFailed ~> Waiting)
    /\ ((Waiting /\ ~stop_event) ~> (InTick \/ stop_event))

\* after a tick in which a run raised once its initial message was out, a
\* later tick raised in the query of the due surveys, stop not requested
C19_Witness ==
    /\ pc[Tick] = "done" /\ loc[Tick].result = "query_failed"
    /\ ~stop_event
    /\ ops >= 2
    /\ \E s \in SurveyIds, u \in Users :
          Len(sent[s][u]) > 0 /\ surveys[s].reminders_sent_count = 0

\* C20: once stop was requested no tick starts; the request itself changes
\* nothing but the event, and a tick in flight can take its next step; the
\* thread ends from the wait only, which it can leave at once when the event
\* is set; and after the request the thread does end
C20_StopEndsTheLoop ==
    /\ [][stop_event => ~(Waiting /\ InTick')]_vars
    /\ [][(~stop_event /\ stop_event') =>
            (pc' = pc /\ loc' = loc /\ surveys' = surveys /\ sent' = sent)]_vars
    /\ [][(pc'[Tick] = "exited" /\ pc[Tick] # "exited") => Waiting]_vars
    /\ []((stop_event /\ InTick) => ENABLED (RunStep(Tick) \/ Return(Tick)))
    /\ []((stop_event /\ Waiting) => ENABLED loop_exit)
    /\ (stop_event ~> (pc[Tick] = "exited"))

\* stop was requested during a tick, and the tick went on to the end of the
\* run of its last survey
C20_Witness ==
    /\ stop_event
    /\ RunEnded(Tick)
    /\ loc[Tick].due_ids = SurveyIds

\* C21: the surveys a tick takes from its query are exactly the ones that
\* are, at the query, active, with an interval above 0 and with now minus
\* last_reminder_sent_at (created_at when no reminder was sent) at least the
\* interval; the tick runs these and no other, so never one with interval 0
C21_TickProcessesExactlyTheDue ==
    /\ [][(/\ Idle(Tick) /\ loc'[Tick].op = "tick"
           /\ loc'[Tick].result # "query_failed")
          => loc'[Tick].due_ids =
                {s \in SurveyIds :
                    /\ surveys[s].is_active
                    /\ surveys[s].reminder_interval_hours > 0
                    /\ now - (IF surveys[s].last_reminder_sent_at = NoTime
                              THEN surveys[s].created_at
                              ELSE surveys[s].last_reminder_sent_at)
                          >= surveys[s].reminder_interval_hours}]_vars
    /\ [](InRun(Tick) => (/\ loc[Tick].sid \in loc[Tick].due_ids
                          /\ loc[Tick].survey.reminder_interval_hours > 0))
    /\ [](\A m \in loc[Tick].log : m.survey \in loc[Tick].due_ids)
    /\ []((pc[Tick] = "done" /\ loc[Tick].op = "tick")
          => \A s \in loc[Tick].due_ids : Processed(s))

\* a tick found nothing due on an active survey with an interval of one
\* hour, created an hour ago and reminded within the hour
C21_Witness ==
    \E s \in SurveyIds :
        /\ pc[Tick] = "done" /\ loc[Tick].result = "no_due"
        /\ surveys[s].is_active
        /\ surveys[s].reminder_interval_hours = 1
        /\ now - surveys[s].created_at >= 1
        /\ surveys[s].last_reminder_sent_at = now

\* the recipients of the initial messages, and of the reminders, that the
\* locals l record for survey s
InitialsIn(l, s) == {m.user : m \in {x \in l.log : x.kind = "initial" /\ x.survey = s}}

RemindedIn(l, s) == {m.user : m \in {x \in l.log : x.kind = "reminder" /\ x.survey = s}}

\* C22: past the first loop of a run, every recipient the run sent the
\* initial message to is in the run's unanswered set
C22_NewRecipientsAreUnanswered ==
    \A p \in Procs :
        pc[p] = "status_write" =>
            InitialsIn(loc[p], loc[p].sid) \subseteq loc[p].unanswered

\* C23: a run whose survey is closed begins no send batch for it: it sends
\* no first initial message and no reminders
C23_NoBatchAfterClose ==
    [][\A p \in Procs :
          (InRun(p) /\ ~surveys[loc[p].sid].is_active) =>
              /\ InitialsIn(loc[p], loc[p].sid) = {}
                 => InitialsIn(loc'[p], loc[p].sid) = {}
              /\ RemindedIn(loc'[p], loc[p].sid) = RemindedIn(loc[p], loc[p].sid)]_vars

\* C24: the target set the tick resolves for a survey is the one of the
\* include and exclude lists persisted when it resolves it
C24_TargetFromPersistedLists ==
    [][(pc[Tick] = "resolve" /\ pc'[Tick] = "get_sent")
       => loc'[Tick].target_users = target_users_of(surveys[loc[Tick].sid], members)]_vars

\* C25: the include and exclude references of a closed survey never change
C25_NoListUpdateAfterClose ==
    [][\A s \in SurveyIds :
          (Found(surveys[s]) /\ ~surveys[s].is_active) =>
              /\ surveys'[s].users_incl = surveys[s].users_incl
              /\ surveys'[s].users_excl = surveys[s].users_excl]_vars

\* C28: Stop and the two list handlers, on an id with no survey, end with
\* the not-found outcome said to the caller, never with an exception
C28_NotFoundNeverEscapes ==
    \A h \in Handlers :
        (/\ pc[h] = "done"
         /\ loc[h].op \in {"stop", "set_lists", "list_change"}
         /\ ~Found(get_survey_by_id(surveys, loc[h].sid)))
        => loc[h].result \in {"not_found", "error"}

\* C26: the step of a moderation-list update changes nothing but the
\* include and exclude references of its survey: no SentRecord, no Response,
\* no message, no other survey, no other column
C26_ListUpdateChangesOnlyTheLists ==
    [][\A h \in Handlers :
          (Idle(h) /\ loc'[h].op \in {"set_lists", "list_change"}) =>
              /\ sent' = sent /\ responses' = responses
              /\ loc'[h].log = {}
              /\ \A s \in SurveyIds :
                    /\ s # loc'[h].sid => surveys'[s] = surveys[s]
                    /\ surveys'[s] = [surveys[s] EXCEPT
                                         !.users_incl = surveys'[s].users_incl,
                                         !.users_excl = surveys'[s].users_excl]]_vars

\* a list update ended on a survey that has SentRecords and was reminded:
\* the exclude reference is new, count and time of the reminder are in place
C26_Witness ==
    \E h \in Handlers :
        /\ pc[h] = "done" /\ loc[h].op = "set_lists" /\ loc[h].result = "updated"
        /\ surveys[loc[h].sid].users_excl # <<>>
        /\ surveys[loc[h].sid].reminders_sent_count >= 1
        /\ surveys[loc[h].sid].last_reminder_sent_at # NoTime
        /\ \E u \in Users : Len(sent[loc[h].sid][u]) > 0

\* C27: a Remind Now on an id with no survey, or on a closed survey, ends at
\* once: it posts nothing, writes no SentRecord and changes no survey row
C27_RemindNowOnNothing ==
    [][\A h \in Handlers :
          (/\ Idle(h) /\ loc'[h].op = "remind"
           /\ LET s == loc'[h].sid
              IN \/ s \notin SurveyIds
                 \/ surveys[s].id = 0
                 \/ ~surveys[s].is_active)
          => (/\ pc'[h] = "done" /\ loc'[h].log = {}
              /\ sent' = sent /\ surveys' = surveys)]_vars

\* a Remind Now on an id with no survey ended, while an active survey has a
\* target recipient not yet sent to
C27_Witness ==
    \E h \in Handlers, s \in SurveyIds :
        /\ pc[h] = "done" /\ loc[h].op = "remind" /\ loc[h].result = "not_active"
        /\ ~Found(get_survey_by_id(surveys, loc[h].sid))
        /\ surveys[s].is_active
        /\ \E u \in target_users_of(surveys[s], members) : Len(sent[s][u]) = 0

\* a reference to a list that exists
KnownToken(tok) == IntOfToken(tok) \in DOMAIN members

\* a column of references without the ones to no list
WithoutUnknown(str) == Join(SelectSeq(SplitIds(str), KnownToken))

\* C29: the target set a run or Start resolves is the one of the survey's
\* references with every reference to no existing list taken out; the
\* resolution goes on to the next statement
C29_UnknownListsAreSkipped ==
    \A p \in Procs :
        /\ pc[p] \in {"get_sent", "start_send"} =>
              loc[p].target_users =
                  target_users_of([loc[p].survey EXCEPT
                                      !.users_incl = WithoutUnknown(@),
                                      !.users_excl = WithoutUnknown(@)], members)
        /\ pc[p] = "resolve" => ENABLED run_resolve(p)

\* a run resolved a non-empty target from include references to a list
\* with members and to no list, and an exclude reference to no list
C29_Witness ==
    \E p \in Procs :
        /\ pc[p] = "get_sent"
        /\ loc[p].target_users # {}
        /\ loc[p].survey.users_incl # WithoutUnknown(loc[p].survey.users_incl)
        /\ WithoutUnknown(loc[p].survey.users_incl) # <<>>
        /\ loc[p].survey.users_excl # <<>>
        /\ WithoutUnknown(loc[p].survey.users_excl) = <<>>

\* C30: every reminder is a reply in the thread of a message handle stored
\* in a SentRecord of its recipient for its survey; none is sent without a
\* handle
C30_RemindersAreThreadedReplies ==
    \A p \in Procs :
        \A m \in loc[p].log :
            m.kind = "reminder" =>
                /\ m.thread_ts # 0
                /\ \E i \in 1..Len(sent[m.survey][m.user]) :
                      sent[m.survey][m.user][i] = m.thread_ts

\* a reminder went out in the thread of its survey's message to a recipient
\* who has a message of another survey too
C30_Witness ==
    \E p \in Procs :
        \E m \in loc[p].log :
            /\ m.kind = "reminder"
            /\ \E i \in 1..Len(sent[m.survey][m.user]) :
                  sent[m.survey][m.user][i] = m.thread_ts
            /\ \E x \in SurveyIds \ {m.survey} : Len(sent[x][m.user]) > 0

\* C31: a creation submission that ended has persisted a survey that is
\* active, has the interval given in the modal, reminders_sent_count 0 and no
\* last_reminder_sent_at
C31_CreatedActiveWithInterval ==
    \A h \in Handlers :
        (pc[h] = "done" /\ loc[h].op = "create") =>
            /\ loc[h].sid \in SurveyIds
            /\ LET row == surveys[loc[h].sid]
               IN /\ Found(row) /\ row.is_active
                  /\ row.reminder_interval_hours = reminder_interval_of(loc[h].answer)
                  /\ row.reminders_sent_count = 0
                  /\ row.last_reminder_sent_at = NoTime

\* C32: a submission with an empty or missing answer ends in its first
\* step with "could not retrieve answer": no Response is created and no
\* table changes
C32_EmptyAnswerRejected ==
    [][\A h \in Handlers :
          (Idle(h) /\ loc'[h].op = "submit" /\ loc'[h].answer = "") =>
              /\ pc'[h] = "done" /\ loc'[h].result = "no_answer"
              /\ responses' = responses /\ surveys' = surveys
              /\ sent' = sent /\ members' = members]_vars

\* an empty submission was rejected for a recipient who was sent the survey
\* and has no Response
C32_Witness ==
    \E h \in Handlers :
        /\ pc[h] = "done" /\ loc[h].op = "submit" /\ loc[h].result = "no_answer"
        /\ Len(sent[loc[h].sid][loc[h].user]) > 0
        /\ ~check_user_responded(responses, loc[h].sid, loc[h].user)

\* C33: an update_list_members(list, ids, names) that ended has left the
\* list with exactly the given ids as members
C33_UpdateSetsTheMembers ==
    \A h \in Handlers :
        (/\ pc[h] = "done" /\ loc[h].op = "update_members"
         /\ \A q \in Handlers \ {h} : loc[q].list_id # loc[h].list_id)
        => members[loc[h].list_id] = loc[h].slack_ids

\* C34: the recipients the Unanswered button lists are the ones with a
\* SentRecord of the survey and no Response that are in the survey's target
\* audience now, the set a run started in this state would remind
C34_ListedAreTheRemindable ==
    \A h \in Handlers :
        (pc[h] = "done" /\ loc[h].op = "unanswered" /\ loc[h].sid \in SurveyIds) =>
            loc[h].mentions =
                unanswered_user_ids_of(user_message_map_of(sent, loc[h].sid),
                                       responded_user_ids_of(responses, loc[h].sid),
                                       target_users_of(surveys[loc[h].sid], members))

\* C35: whatever a caller outside the admin list triggers, no survey is
\* created, closed or otherwise changed, no list reference changes and no
\* message goes to a recipient
C35_NonAdminChangesNothing ==
    [][/\ surveys' = surveys
       /\ sent' = sent
       /\ \A p \in Handlers :
             \A m \in loc'[p].log \ loc[p].log : m.kind \notin {"initial", "reminder"}]_vars

\* C36: with no Remind Now, a run that completes records its time, nothing
\* else changes the recorded time, two completions of a survey are recorded
\* at least one interval apart, and a tick takes a survey that was processed
\* before only when one interval has passed since the recorded time
C36_TickRunsAnIntervalApart ==
    [][\A s \in SurveyIds :
          LET last == surveys[s].last_reminder_sent_at
              interval == surveys[s].reminder_interval_hours
          IN /\ surveys'[s].reminders_sent_count # surveys[s].reminders_sent_count =>
                   /\ surveys'[s].last_reminder_sent_at \in 0..now
                   /\ last # NoTime => surveys'[s].last_reminder_sent_at >= last + interval
             /\ surveys'[s].last_reminder_sent_at # last =>
                   surveys'[s].reminders_sent_count # surveys[s].reminders_sent_count
             /\ (/\ Idle(Tick) /\ loc'[Tick].op = "tick" /\ s \in loc'[Tick].due_ids
                 /\ surveys[s].reminders_sent_count > 0)
                => (last # NoTime /\ now >= last + interval)]_vars

\* the second run of a tick for the survey completed, one interval after
\* the first
C36_Witness ==
    /\ RunEnded(Tick)
    /\ surveys[1].reminders_sent_count = 2
    /\ surveys[1].last_reminder_sent_at = surveys[1].created_at + 2 * surveys[1].reminder_interval_hours

C38_CountIsTheCompletedRuns ==
    ops = Cardinality(InFlight) =>
        surveys[1].reminders_sent_count =
            Cardinality({p \in Procs : Msg("completed", 1, 0, 0) \in loc[p].log})

\* C39: while update_list_members replaces the members of a list, and no
\* other operation works on that list, what a reader finds in the list is
\* the complete old member set or the complete new one; and when the insert
\* of the new members failed it is the old one
C39_ListReplacementIsAtomic ==
    \A h \in Handlers :
        (/\ loc[h].op = "update_members"
         /\ \A q \in Handlers \ {h} : loc[q].list_id # loc[h].list_id)
        => LET l == loc[h].list_id
           IN /\ pc[h] = "insert_members" =>
                    members[l] \in {loc[h].old_members, loc[h].slack_ids}
              /\ (pc[h] = "done" /\ loc[h].result = "error") =>
                    members[l] = loc[h].old_members

\* C40: update_users returns having handled every entry that is not a bot:
\* created, updated and errors add up to the number of these entries, and
\* with no error each of them has a row with the data of the sync
C40_EveryNonBotIsHandled ==
    \A h \in Handlers :
        (pc[h] = "done" /\ loc[h].op = "update_users") =>
            LET kept == NonBots(loc[h].roster)
            IN /\ loc[h].result = "returned"
               /\ loc[h].created_count + loc[h].updated_count + loc[h].errors = Len(kept)
               /\ loc[h].errors = 0 =>
                     \A i \in 1..Len(kept) : slack_users[kept[i].id] = 2

====
